---- MODULE Spec2Model ----
(***************************************************************************)
(* Model of the googology crate: the Conway-Wechsler "-illion" and Knuth   *)
(* "-yllion" number naming functions.                                      *)
(*                                                                         *)
(* Rust String / &str values are TLA+ strings (Len, SubSeq and \o act on   *)
(* them character by character).  Option<T> and Result<T, ParseError> are  *)
(* records.  A BigUint is the sequence of its decimal digits, most         *)
(* significant first, without leading zeros (zero is the empty sequence).  *)
(***************************************************************************)
EXTENDS Integers, Sequences, FiniteSets, TLC

(***************************************************************************)
(* Option and Result values.                                               *)
(***************************************************************************)
None == [some |-> FALSE, val |-> ""]
Some(v) == [some |-> TRUE, val |-> v]

Ok(v) == [ok |-> TRUE, val |-> v]
Err(e) == [ok |-> FALSE, val |-> e]

\* lib.rs: enum ParseError
ParseError == {"Empty", "InputTooLarge", "InternalError", "InvalidDigit"}

\* An unwrap() on None or Err, or an arithmetic underflow, aborts the call.
Panic == [ok |-> FALSE, val |-> "panic"]

\* String::pop: removes the last character, if there is one.
Pop(s) == IF s = "" THEN "" ELSE SubSeq(s, 1, Len(s) - 1)

\* The character of s at the 0-based index i.
CharAt(s, i) == SubSeq(s, i + 1, i + 1)

(***************************************************************************)
(* common.rs: tables.                                                      *)
(***************************************************************************)
NAMES_UPTO_TWENTY ==
    << "", "one", "two", "three", "four", "five", "six", "seven", "eight",
       "nine", "ten", "eleven", "twelve", "thirteen", "fourteen", "fifteen",
       "sixteen", "seventeen", "eighteen", "nineteen" >>

TENS_NAMES ==
    << "", "", "twenty", "thirty", "fourty", "fifty", "sixty", "seventy",
       "eighty", "ninety" >>

LATIN_BASE_PREFIXES ==
    << "n", "m", "b", "tr", "quadr", "quint", "sext", "sept", "oct", "non" >>

LATIN_UNIT_PREFIXES ==
    << "", "un", "duo", "tre", "quattuor", "quinqua", "se", "septe", "octo",
       "nove" >>

LATIN_TENS_PREFIXES ==
    << "", "deci", "viginti", "triginta", "quadraginta", "quinquaginta",
       "sexaginta", "septuaginta", "octoginta", "nonaginta" >>

LATIN_HUNDREDS_PREFIXES ==
    << "", "centi", "ducenti", "trecenti", "quadringenti", "quingenti",
       "sescenti", "septingenti", "octingenti", "nongenti" >>

(***************************************************************************)
(* common.rs: digit strings.                                               *)
(***************************************************************************)
DigitChars == {"0", "1", "2", "3", "4", "5", "6", "7", "8", "9"}

\* char::is_digit(10)
IsDigit(c) == c \in DigitChars

\* char::to_digit(10) of a decimal digit
DigitVal(c) ==
    CASE c = "0" -> 0 [] c = "1" -> 1 [] c = "2" -> 2 [] c = "3" -> 3
      [] c = "4" -> 4 [] c = "5" -> 5 [] c = "6" -> 6 [] c = "7" -> 7
      [] c = "8" -> 8 [] c = "9" -> 9

is_all_digits(s) == \A i \in 1..Len(s) : IsDigit(SubSeq(s, i, i))

\* A faulty find: it keeps the last digit of a string of zeros.
FindNonZeroKeepLast(s) ==
    LET hits == {i \in 0..(Len(s) - 1) : CharAt(s, i) # "0"}
    IN  IF s = "" THEN None
        ELSE IF hits = {} THEN Some(Len(s) - 1)
        ELSE Some(CHOOSE i \in hits : \A j \in hits : i <= j)

\* str::find(|c| c != '0'): the 0-based index of the first character that is
\* not '0', or None.
FindNonZero(s) ==
    LET hits == {i \in 0..(Len(s) - 1) : CharAt(s, i) # "0"}
    IN  IF hits = {} THEN None
        ELSE Some(CHOOSE i \in hits : \A j \in hits : i <= j)

\* str::parse::<usize>: None stands for Err.  An optional leading '+' is
\* accepted; the strings this crate parses have at most four characters, far
\* from the overflow of usize.
RECURSIVE ParseDigits(_, _)
ParseDigits(s, acc) ==
    IF s = "" THEN acc
    ELSE ParseDigits(Tail(s), 10 * acc + DigitVal(Head(s)))

ParseUsize(s) ==
    LET body == IF s # "" /\ Head(s) = "+" THEN Tail(s) ELSE s
    IN  IF body = "" \/ ~is_all_digits(body) THEN None
        ELSE Some(ParseDigits(body, 0))

\* num_from_slice: None stands for the panic of either unwrap.
num_from_slice(digits, index, ndigits) ==
    IF index + ndigits > Len(digits) THEN None
    ELSE ParseUsize(SubSeq(digits, index + 1, index + ndigits))

(***************************************************************************)
(* common.rs: latin_prefix.                                                *)
(***************************************************************************)
\* The letter the first match (a tens place follows the unit) appends.
UnitEndingBeforeTens(us, ts) ==
    CASE us = 3 /\ (ts \in 2..5 \/ ts = 8) -> "s"
      [] us = 6 /\ ts \in 2..5 -> "s"
      [] us = 6 /\ ts = 8 -> "x"
      [] us = 7 /\ (ts = 1 \/ ts \in 3..7) -> "n"
      [] us = 7 /\ (ts = 2 \/ ts = 8) -> "m"
      [] us = 9 /\ (ts = 1 \/ ts \in 3..7) -> "n"
      [] us = 9 /\ (ts = 2 \/ ts = 8) -> "m"
      [] OTHER -> ""

\* A faulty second match: the unit never gets a letter before the hundreds.
UnitEndingBeforeHundredsNone(us, hs) == ""

\* The letter the second match (a hundreds place follows the unit) appends.
UnitEndingBeforeHundreds(us, hs) ==
    CASE us = 3 /\ (hs = 1 \/ hs \in 3..5 \/ hs = 8) -> "s"
      [] us = 6 /\ (hs = 1 \/ hs = 8) -> "x"
      [] us = 6 /\ hs \in 3..5 -> "s"
      [] us = 7 /\ hs \in 1..7 -> "n"
      [] us = 7 /\ hs = 8 -> "m"
      [] us = 9 /\ hs \in 1..7 -> "n"
      [] us = 9 /\ hs = 8 -> "m"
      [] OTHER -> ""

\* A faulty assembly: the places in the order (hundreds)(tens)(units).
LatinAssembledUnitLast(num) ==
    LET hs == num \div 100
        ts == (num % 100) \div 10
        us == num % 10
    IN  LATIN_HUNDREDS_PREFIXES[hs + 1] \o LATIN_TENS_PREFIXES[ts + 1]
                                        \o LATIN_UNIT_PREFIXES[us + 1]

\* The prefix as assembled before the final pop (num in 10..999).
LatinAssembled(num) ==
    LET hs == num \div 100
        ts == (num % 100) \div 10
        us == num % 10
        unit == LATIN_UNIT_PREFIXES[us + 1]
    IN  IF ts > 0
        THEN unit \o UnitEndingBeforeTens(us, ts)
                  \o LATIN_TENS_PREFIXES[ts + 1]
                  \o LATIN_HUNDREDS_PREFIXES[hs + 1]
        ELSE unit \o UnitEndingBeforeHundreds(us, hs)
                  \o LATIN_HUNDREDS_PREFIXES[hs + 1]

LatinLimit == 1000

latin_prefix(num) ==
    IF num >= LatinLimit THEN None
    ELSE IF num < 10 THEN Some(LATIN_BASE_PREFIXES[num + 1])
    ELSE Some(Pop(LatinAssembled(num)))

(***************************************************************************)
(* common.rs: myriad_number.                                               *)
(***************************************************************************)
name_hundreds(tens, units) ==
    LET output == TENS_NAMES[tens + 1]
    IN  IF output = "" THEN NAMES_UPTO_TWENTY[(10 * tens) + units + 1]
        ELSE IF units > 0 THEN output \o " " \o NAMES_UPTO_TWENTY[units + 1]
        ELSE output

MyriadLimit == 10000

myriad_number(num) ==
    IF num >= MyriadLimit THEN None
    ELSE
        LET ms == num \div 1000
            hs == (num % 1000) \div 100
            ts == (num % 100) \div 10
            us == num % 10
            high == name_hundreds(ms, hs)
            append == name_hundreds(ts, us)
            o1 == IF high # "" THEN high \o " hundred " ELSE high
            o2 == IF append # "" THEN o1 \o append \o " " ELSE o1
        IN  Some(Pop(o2))

(***************************************************************************)
(* num_bigint::BigUint, as used by the two power_of_ten functions: a       *)
(* sequence of limbs in base 10^6, most significant first, without leading *)
(* zero limbs (zero is the empty sequence).                                *)
(***************************************************************************)
LimbDigits == 6
LimbBase == 10 ^ LimbDigits

BigNormalize(b) ==
    LET nonzero == {i \in 1..Len(b) : b[i] # 0}
    IN  IF nonzero = {} THEN <<>>
        ELSE SubSeq(b, CHOOSE i \in nonzero : \A j \in nonzero : i <= j,
                    Len(b))

\* The limbs of a nonempty string of decimal digits: the first limb takes
\* the characters left over by the full limbs after it.
BigLimbsOf(s) ==
    LET count == (Len(s) + LimbDigits - 1) \div LimbDigits
        top == Len(s) - LimbDigits * (count - 1)
    IN  [j \in 1..count |->
            IF j = 1 THEN ParseDigits(SubSeq(s, 1, top), 0)
            ELSE ParseDigits(SubSeq(s, top + LimbDigits * (j - 2) + 1,
                                       top + LimbDigits * (j - 1)), 0)]

\* BigUint::from_str: None stands for Err(ParseBigIntError).
BigFromStr(s) ==
    IF s = "" \/ ~is_all_digits(s) THEN None
    ELSE Some(BigNormalize(BigLimbsOf(s)))

BigIsZero(b) == b = <<>>
BigIsOne(b) == b = <<1>>

\* LimbBase^k mod d, by squaring.
RECURSIVE LimbPowRem(_, _)
LimbPowRem(k, d) ==
    IF k = 0 THEN 1 % d
    ELSE LET half == LimbPowRem(k \div 2, d)
         IN  IF k % 2 = 1 THEN (((half * half) % d) * (LimbBase % d)) % d
             ELSE (half * half) % d

\* The number written by the limbs lo..hi of b, mod d.
RECURSIVE BigRangeRem(_, _, _, _)
BigRangeRem(b, d, lo, hi) ==
    IF lo = hi THEN b[lo] % d
    ELSE LET mid == (lo + hi) \div 2
         IN  (BigRangeRem(b, d, lo, mid) * LimbPowRem(hi - mid, d)
              + BigRangeRem(b, d, mid + 1, hi)) % d

\* The number written by the first i limbs of b, mod d: the remainder that
\* long division carries into limb i + 1.  When d divides LimbBase only the
\* limb i counts.
BigPrefixRem(b, d, i) ==
    IF i = 0 THEN 0
    ELSE IF LimbBase % d = 0 THEN b[i] % d
    ELSE BigRangeRem(b, d, 1, i)

\* &b % d for a small divisor d.
BigRem(b, d) == BigPrefixRem(b, d, Len(b))

\* b /= d for a small divisor d, by long division.
BigDiv(b, d) ==
    BigNormalize([i \in 1..Len(b) |->
                    (LimbBase * BigPrefixRem(b, d, i - 1) + b[i]) \div d])

\* b += k for a small k.
RECURSIVE BigAddFrom(_, _, _)
BigAddFrom(b, carry, low) ==
    IF carry = 0 THEN b \o low
    ELSE IF b = <<>> THEN <<carry>> \o low
    ELSE LET s == b[Len(b)] + carry
         IN  BigAddFrom(SubSeq(b, 1, Len(b) - 1), s \div LimbBase,
                        <<s % LimbBase>> \o low)

BigAdd(b, k) == BigAddFrom(b, k, <<>>)

\* b -= k for a small k; None stands for the panic on underflow.
RECURSIVE BigSubFrom(_, _, _)
BigSubFrom(b, borrow, low) ==
    IF borrow = 0 THEN Some(BigNormalize(b \o low))
    ELSE IF b = <<>> THEN None
    ELSE LET last == b[Len(b)]
             front == SubSeq(b, 1, Len(b) - 1)
         IN  IF last >= borrow
             THEN BigSubFrom(front, 0, <<last - borrow>> \o low)
             ELSE BigSubFrom(front, 1, <<last + LimbBase - borrow>> \o low)

BigSub(b, k) == BigSubFrom(b, k, <<>>)

(***************************************************************************)
(* conway_wechsler.rs                                                      *)
(***************************************************************************)
Scales == {"Short", "LongBritish", "LongPeletier"}

\* latin_prefix(num)? : a None ends the caller with the internal error.
zillion_prefix(num) ==
    LET name == latin_prefix(num)
    IN  IF ~name.some THEN Err("InternalError")
        ELSE Ok(name.val \o "illi")

\* The while loop of zillion_number: the zillion prefixes of power, least
\* significant first.
RECURSIVE ZillionsOf(_, _)
ZillionsOf(power, zillions) ==
    IF power > 0
    THEN LET zillion == zillion_prefix(power % 1000)
         IN  IF ~zillion.ok THEN zillion
             ELSE ZillionsOf(power \div 1000, Append(zillions, zillion.val))
    ELSE Ok(zillions)

\* A faulty push: the zillion prefixes in the order they were collected.
RECURSIVE PushInOrder(_, _)
PushInOrder(name, zillions) ==
    IF zillions = <<>> THEN name
    ELSE PushInOrder(name \o Head(zillions), Tail(zillions))

\* for z in zillions.iter().rev() { name.push_str(z) }
RECURSIVE PushReversed(_, _)
PushReversed(name, zillions) ==
    IF zillions = <<>> THEN name
    ELSE PushReversed(name \o zillions[Len(zillions)],
                      SubSeq(zillions, 1, Len(zillions) - 1))

\* A faulty adjustment: the long scales adjust the even powers as well.
ZillionAdjustEveryPower(num, sc) ==
    CASE sc = "LongBritish" -> <<"thousand ", "on">>
      [] sc = "LongPeletier" -> <<"", "ard">>
      [] OTHER -> <<"", "on">>

ZillionAdjust(num, sc) ==
    CASE sc = "LongBritish" /\ num % 2 = 1 -> <<"thousand ", "on">>
      [] sc = "LongPeletier" /\ num % 2 = 1 -> <<"", "ard">>
      [] OTHER -> <<"", "on">>

ZillionPower(num, sc) ==
    IF sc = "Short" THEN num - 1 ELSE ((num + 2) \div 2) - 1

zillion_number(num, sc) ==
    IF num = 0 THEN Ok("")
    ELSE IF num = 1 THEN Ok("thousand")
    ELSE LET adj == ZillionAdjust(num, sc)
             zillions == ZillionsOf(ZillionPower(num, sc), <<>>)
         IN  IF ~zillions.ok THEN zillions
             ELSE Ok(PushReversed(adj[1], zillions.val) \o adj[2])

\* The sanity checks of full_name: the index of the first nonzero digit.
CWFirstNonzero(d) ==
    IF ~is_all_digits(d) THEN Err("InvalidDigit")
    ELSE IF d = "" THEN Err("Empty")
    ELSE Ok(FindNonZero(d))

\* The block for the first, shorter group (first > 0): the output after it.
CWFirstGroup(d, i, remaining, sc) ==
    LET first == remaining % 3
        num == num_from_slice(d, i, first)
        leading == IF num.some THEN myriad_number(num.val) ELSE None
        zillion == zillion_number(remaining \div 3, sc)
    IN  IF ~num.some THEN Panic
        ELSE IF ~leading.some THEN Err("InternalError")
        ELSE IF ~zillion.ok THEN zillion
        ELSE IF zillion.val # "" THEN Ok(leading.val \o " " \o zillion.val)
        ELSE Ok(leading.val)

\* One iteration of the while loop: the output after the group at i.
CWGroup(d, i, remaining, output, sc) ==
    LET num == num_from_slice(d, i, 3)
        leading == IF num.some THEN myriad_number(num.val) ELSE None
        zillion == zillion_number(remaining \div 3 - 1, sc)
        spaced == IF output # "" THEN output \o " " ELSE output
    IN  IF ~num.some THEN Panic
        ELSE IF ~leading.some THEN Err("InternalError")
        ELSE IF ~zillion.ok THEN zillion
        ELSE IF leading.val = "" THEN Ok(output)
        ELSE IF zillion.val # "" 
             THEN Ok(spaced \o leading.val \o " " \o zillion.val)
        ELSE Ok(spaced \o leading.val)

RECURSIVE CWGroups(_, _, _, _, _)
CWGroups(d, i, remaining, output, sc) ==
    IF remaining > 0
    THEN LET out == CWGroup(d, i, remaining, output, sc)
         IN  IF ~out.ok THEN out
             ELSE CWGroups(d, i + 3, remaining - 3, out.val, sc)
    ELSE Ok(output)

cw_full_name(d, sc) ==
    LET first_nonzero == CWFirstNonzero(d)
    IN  IF ~first_nonzero.ok THEN first_nonzero
        ELSE IF ~first_nonzero.val.some THEN Ok("zero")
        ELSE LET i == first_nonzero.val.val
                 remaining == Len(d) - i
                 first == remaining % 3
             IN  IF first > 0
                 THEN LET out == CWFirstGroup(d, i, remaining, sc)
                      IN  IF ~out.ok THEN out
                          ELSE CWGroups(d, i + first, remaining - first,
                                        out.val, sc)
                 ELSE CWGroups(d, i, remaining, "", sc)

\* The sanity check of power_of_ten: the exponent as a BigUint.
CWParseExponent(d) ==
    IF ~is_all_digits(d) THEN Err("InvalidDigit")
    ELSE IF d = "" THEN Err("Empty")
    ELSE LET big == BigFromStr(d)
         IN  IF ~big.some THEN Err("InternalError") ELSE Ok(big.val)

\* The leading word (e.g. "ten" in "ten million").
CWLeadingWord(m) ==
    CASE m = 0 -> "one"
      [] m = 1 -> "ten"
      [] m = 2 -> "one hundred"
      [] OTHER -> ""

\* The long scale adjustment of power_of_ten; power is the BigUint after
\* power -= 1.
CWPowAdjust(power, sc) ==
    CASE sc = "Short" \/ BigRem(power, 2) # 0 -> <<"", "on">>
      [] sc = "LongBritish" -> <<"thousand ", "on">>
      [] sc = "LongPeletier" -> <<"", "ard">>

\* String::insert_str(loc, z)
InsertStr(output, loc, z) ==
    SubSeq(output, 1, loc) \o z \o SubSeq(output, loc + 1, Len(output))

\* The while loop of power_of_ten: zillion prefixes are inserted at loc.
RECURSIVE CWPowZillions(_, _, _)
CWPowZillions(power, output, loc) ==
    IF ~BigIsZero(power)
    THEN LET zillion == zillion_prefix(BigRem(power, 1000))
         IN  IF ~zillion.ok THEN zillion
             ELSE CWPowZillions(BigDiv(power, 1000),
                                InsertStr(output, loc, zillion.val), loc)
    ELSE Ok(output)

\* A faulty long scale adjustment: power += 2 in place of power += 3.
CWPowLongScaleOff(power) == BigSub(BigDiv(BigAdd(power, 2), 2), 1)

\* power += 3; power /= 2; power -= 1 (long scales only).
CWPowLongScale(power) == BigSub(BigDiv(BigAdd(power, 3), 2), 1)

cw_power_of_ten(d, sc) ==
    LET parsed == CWParseExponent(d)
    IN  IF ~parsed.ok THEN parsed
        ELSE
        LET s == CWLeadingWord(BigRem(parsed.val, 3))
            thousands == BigDiv(parsed.val, 3)
        IN  IF BigIsZero(thousands) THEN Ok(s)
            ELSE IF BigIsOne(thousands) THEN Ok(s \o " thousand")
            ELSE
            LET less == BigSub(thousands, 1)
            IN  IF ~less.some THEN Panic
                ELSE
                LET adj == CWPowAdjust(less.val, sc)
                    power == IF sc # "Short" THEN CWPowLongScale(less.val)
                             ELSE less
                    output == s \o " " \o adj[1]
                IN  IF ~power.some THEN Panic
                    ELSE LET named == CWPowZillions(power.val, output,
                                                    Len(output))
                         IN  IF ~named.ok THEN named
                             ELSE Ok(named.val \o adj[2])

(***************************************************************************)
(* knuth_yllion.rs                                                         *)
(***************************************************************************)
\* usize::trailing_zeros of a nonzero value.
RECURSIVE TrailingZeros(_)
TrailingZeros(num) ==
    IF num % 2 = 1 THEN 0 ELSE 1 + TrailingZeros(num \div 2)

\* The qualifier of the group num and the integer to compare against
\* last_largest.
zyllion_number(num) ==
    IF num = 0 THEN Ok([name |-> "", largest |-> 0])
    ELSE IF num % 2 = 1 THEN Ok([name |-> "myriad", largest |-> 1])
    ELSE LET greatest_power_of_two == TrailingZeros(num)
             prefix == latin_prefix(greatest_power_of_two)
         IN  IF ~prefix.some THEN Err("InternalError")
             ELSE Ok([name |-> prefix.val \o "yllion",
                      largest |-> greatest_power_of_two + 1])

\* The sanity check of full_name; an empty string passes it.
KYFirstNonzero(d) ==
    IF ~is_all_digits(d) THEN Err("InvalidDigit")
    ELSE Ok(FindNonZero(d))

\* A faulty scan start: the leading zeros are counted as digits to process.
KYScanStartWhole(d, i) ==
    [i |-> i, remaining |-> Len(d), output |-> "", last_largest |-> 0]

\* The scan state of full_name before the first group.
KYScanStart(d, i) ==
    [i |-> i, remaining |-> Len(d) - i, output |-> "", last_largest |-> 0]

\* A faulty first group: the qualifier is written but not remembered.
KYFirstGroupForgets(d, st) ==
    LET first == st.remaining % 4
        num == num_from_slice(d, st.i, first)
        leading == IF num.some THEN myriad_number(num.val) ELSE None
        zyl == zyllion_number(st.remaining \div 4)
    IN  IF ~num.some THEN Panic
        ELSE IF ~leading.some THEN Err("InternalError")
        ELSE IF ~zyl.ok THEN zyl
        ELSE Ok([i |-> st.i + first,
                 remaining |-> st.remaining - first,
                 output |-> IF zyl.val.name # ""
                            THEN st.output \o leading.val \o " "
                                           \o zyl.val.name
                            ELSE st.output \o leading.val,
                 last_largest |-> st.last_largest])

\* The block for the first, shorter group (first > 0).
KYFirstGroup(d, st) ==
    LET first == st.remaining % 4
        num == num_from_slice(d, st.i, first)
        leading == IF num.some THEN myriad_number(num.val) ELSE None
        zyl == zyllion_number(st.remaining \div 4)
    IN  IF ~num.some THEN Panic
        ELSE IF ~leading.some THEN Err("InternalError")
        ELSE IF ~zyl.ok THEN zyl
        ELSE Ok([i |-> st.i + first,
                 remaining |-> st.remaining - first,
                 output |-> IF zyl.val.name # ""
                            THEN st.output \o leading.val \o " "
                                           \o zyl.val.name
                            ELSE st.output \o leading.val,
                 last_largest |-> IF zyl.val.name # ""
                                  THEN zyl.val.largest
                                  ELSE st.last_largest])

\* A faulty iteration: last_largest keeps the highest qualifier written so
\* far instead of the last one.
KYGroupKeepsHighest(d, st) ==
    LET num == num_from_slice(d, st.i, 4)
        leading == IF num.some THEN myriad_number(num.val) ELSE None
        zyl == zyllion_number((st.remaining - 1) \div 4)
    IN  IF ~num.some THEN Panic
        ELSE IF ~leading.some THEN Err("InternalError")
        ELSE IF ~zyl.ok THEN zyl
        ELSE
        LET spaced == IF st.output # "" THEN st.output \o " " ELSE st.output
            named == leading.val # ""
            qualified == named /\ zyl.val.name # ""
            out1 == IF qualified
                    THEN spaced \o leading.val \o " " \o zyl.val.name
                    ELSE IF named THEN spaced \o leading.val
                    ELSE st.output
            ll1 == IF qualified /\ zyl.val.largest > st.last_largest
                   THEN zyl.val.largest ELSE st.last_largest
            alone == zyl.val.largest > ll1
        IN  Ok([i |-> st.i + 4,
                remaining |-> st.remaining - 4,
                output |-> IF alone THEN out1 \o " " \o zyl.val.name
                           ELSE out1,
                last_largest |-> IF alone THEN zyl.val.largest ELSE ll1])

\* One iteration of the while loop of full_name.
KYGroup(d, st) ==
    LET num == num_from_slice(d, st.i, 4)
        leading == IF num.some THEN myriad_number(num.val) ELSE None
        zyl == zyllion_number((st.remaining - 1) \div 4)
    IN  IF ~num.some THEN Panic
        ELSE IF ~leading.some THEN Err("InternalError")
        ELSE IF ~zyl.ok THEN zyl
        ELSE
        LET spaced == IF st.output # "" THEN st.output \o " " ELSE st.output
            named == leading.val # ""
            qualified == named /\ zyl.val.name # ""
            out1 == IF qualified
                    THEN spaced \o leading.val \o " " \o zyl.val.name
                    ELSE IF named THEN spaced \o leading.val
                    ELSE st.output
            ll1 == IF qualified THEN zyl.val.largest ELSE st.last_largest
            alone == zyl.val.largest > ll1
        IN  Ok([i |-> st.i + 4,
                remaining |-> st.remaining - 4,
                output |-> IF alone THEN out1 \o " " \o zyl.val.name
                           ELSE out1,
                last_largest |-> IF alone THEN zyl.val.largest ELSE ll1])

RECURSIVE KYGroups(_, _)
KYGroups(d, st) ==
    IF st.remaining > 0
    THEN LET next == KYGroup(d, st)
         IN  IF ~next.ok THEN next ELSE KYGroups(d, next.val)
    ELSE Ok(st.output)

ky_full_name(d) ==
    LET first_nonzero == KYFirstNonzero(d)
    IN  IF ~first_nonzero.ok THEN first_nonzero
        ELSE IF ~first_nonzero.val.some THEN Ok("zero")
        ELSE LET st == KYScanStart(d, first_nonzero.val.val)
             IN  IF st.remaining % 4 > 0
                 THEN LET next == KYFirstGroup(d, st)
                      IN  IF ~next.ok THEN next ELSE KYGroups(d, next.val)
                 ELSE KYGroups(d, st)

\* The sanity check of power_of_ten: the exponent as a BigUint.
KYParseExponent(d) ==
    IF ~is_all_digits(d) THEN Err("InvalidDigit")
    ELSE LET big == BigFromStr(d)
         IN  IF ~big.some THEN Err("Empty") ELSE Ok(big.val)

KYLeadingWord(m) ==
    CASE m = 0 -> "one"
      [] m = 1 -> "ten"
      [] OTHER -> ""

\* The largest zyl_num the loop of power_of_ten goes on with.
ZylNumMax == 999

\* power_of_ten up to the loop: the small cases.
KYPowStart(power) ==
    LET s == KYLeadingWord(BigRem(power, 2))
        p1 == BigDiv(power, 2)
        o1 == IF BigRem(p1, 2) = 1 THEN s \o " hundred" ELSE s
        p2 == BigDiv(p1, 2)
        o2 == IF BigRem(p2, 2) = 2 THEN o1 \o " myriad" ELSE o1
    IN  [power |-> p2, zyl_num |-> 1, output |-> o2]

\* A faulty iteration: the check of zyl_num comes one iteration late.
KYPowIterLate(st) ==
    LET power == BigDiv(st.power, 2)
    IN  IF st.zyl_num > ZylNumMax + 1 THEN Err("InputTooLarge")
        ELSE IF BigRem(power, 2) = 1
        THEN LET prefix == latin_prefix(st.zyl_num)
             IN  IF ~prefix.some THEN Err("InternalError")
                 ELSE Ok([power |-> power, zyl_num |-> st.zyl_num + 1,
                          output |-> st.output \o " " \o prefix.val
                                               \o "yllion"])
        ELSE Ok([power |-> power, zyl_num |-> st.zyl_num + 1,
                 output |-> st.output])

\* One iteration of the while loop of power_of_ten.
KYPowIter(st) ==
    LET power == BigDiv(st.power, 2)
    IN  IF st.zyl_num > ZylNumMax THEN Err("InputTooLarge")
        ELSE IF BigRem(power, 2) = 1
        THEN LET prefix == latin_prefix(st.zyl_num)
             IN  IF ~prefix.some THEN Err("InternalError")
                 ELSE Ok([power |-> power, zyl_num |-> st.zyl_num + 1,
                          output |-> st.output \o " " \o prefix.val
                                               \o "yllion"])
        ELSE Ok([power |-> power, zyl_num |-> st.zyl_num + 1,
                 output |-> st.output])

RECURSIVE KYPowLoop(_)
KYPowLoop(st) ==
    IF ~BigIsZero(st.power)
    THEN LET next == KYPowIter(st)
         IN  IF ~next.ok THEN next ELSE KYPowLoop(next.val)
    ELSE Ok(st.output)

ky_power_of_ten(d) ==
    LET parsed == KYParseExponent(d)
    IN  IF ~parsed.ok THEN parsed ELSE KYPowLoop(KYPowStart(parsed.val))

(***************************************************************************)
(* The callers of the library.  The crate keeps no state between calls: a  *)
(* session fixes the arguments (the digit string handed to full_name, the  *)
(* exponent string handed to power_of_ten, the scale, and the number       *)
(* handed to the helper functions) and records what each call returned.    *)
(***************************************************************************)
VARIABLES digits, exponent, scale, num, ret, kp, fs, emitted

vars == <<digits, exponent, scale, num, ret, kp, fs, emitted>>

Ops == {"cw_full_name", "cw_power_of_ten", "ky_full_name", "ky_power_of_ten",
        "zillion_number", "myriad_number", "latin_prefix"}

NotCalled == [ok |-> FALSE, val |-> "not called"]

Called(op) == ret[op] # NotCalled

\* No call has been made, and none is in progress.
Fresh ==
    /\ \A op \in Ops : ~Called(op)
    /\ kp.pc = "idle"
    /\ fs.pc = "idle"

\* The loop state of knuth_yllion::power_of_ten when it runs step by step.
KPIdle == [pc |-> "idle", power |-> <<>>, zyl_num |-> 0, output |-> ""]

\* The scan state of knuth_yllion::full_name when it runs step by step.
FSIdle ==
    [pc |-> "idle", i |-> 0, remaining |-> 0, output |-> "", last_largest |-> 0]

\* The character of the decimal digit v.
DigitChar(v) == CHOOSE c \in DigitChars : DigitVal(c) = v

\* The decimal digits of n, as the caller writes an exponent.
RECURSIVE DecimalString(_)
DecimalString(n) ==
    IF n < 10 THEN DigitChar(n)
    ELSE DecimalString(n \div 10) \o DigitChar(n % 10)

\* n zeros.
RECURSIVE Zeros(_)
Zeros(n) ==
    IF n = 0 THEN ""
    ELSE LET half == Zeros(n \div 2)
         IN  IF n % 2 = 1 THEN half \o half \o "0" ELSE half \o half

\* "1" followed by n zeros.
OneAndZeros(n) == "1" \o Zeros(n)

\* All strings over the characters cs with at most n characters.
RECURSIVE StringsUpTo(_, _)
StringsUpTo(cs, n) ==
    IF n = 0 THEN {""}
    ELSE LET shorter == StringsUpTo(cs, n - 1)
         IN  shorter \cup {s \o c : s \in shorter, c \in cs}

(***************************************************************************)
(* The public operations, each call as one step.                           *)
(***************************************************************************)
CWFullName ==
    /\ ~Called("cw_full_name")
    /\ ret' = [ret EXCEPT !["cw_full_name"] = cw_full_name(digits, scale)]
    /\ UNCHANGED <<digits, exponent, scale, num, kp, fs, emitted>>

CWPowerOfTen ==
    /\ ~Called("cw_power_of_ten")
    /\ ret' = [ret EXCEPT
                 !["cw_power_of_ten"] = cw_power_of_ten(exponent, scale)]
    /\ UNCHANGED <<digits, exponent, scale, num, kp, fs, emitted>>

KYFullName ==
    /\ ~Called("ky_full_name")
    /\ fs.pc = "idle"
    /\ ret' = [ret EXCEPT !["ky_full_name"] = ky_full_name(digits)]
    /\ UNCHANGED <<digits, exponent, scale, num, kp, fs, emitted>>

KYPowerOfTen ==
    /\ ~Called("ky_power_of_ten")
    /\ kp.pc = "idle"
    /\ ret' = [ret EXCEPT !["ky_power_of_ten"] = ky_power_of_ten(exponent)]
    /\ UNCHANGED <<digits, exponent, scale, num, kp, fs, emitted>>

(***************************************************************************)
(* knuth_yllion::power_of_ten, one loop iteration per step (its loop runs  *)
(* about a thousand times on the largest exponents it accepts).            *)
(***************************************************************************)
KYPowEnter ==
    /\ ~Called("ky_power_of_ten")
    /\ kp.pc = "idle"
    /\ LET parsed == KYParseExponent(exponent)
       IN  IF ~parsed.ok
           THEN /\ ret' = [ret EXCEPT !["ky_power_of_ten"] = parsed]
                /\ kp' = [kp EXCEPT !.pc = "done"]
           ELSE /\ kp' = [pc |-> "loop"] @@ KYPowStart(parsed.val)
                /\ UNCHANGED ret
    /\ UNCHANGED <<digits, exponent, scale, num, fs, emitted>>

KYPowStep ==
    /\ kp.pc = "loop"
    /\ ~BigIsZero(kp.power)
    /\ LET next == KYPowIter(kp)
       IN  IF ~next.ok
           THEN /\ ret' = [ret EXCEPT !["ky_power_of_ten"] = next]
                /\ kp' = [kp EXCEPT !.pc = "done"]
           ELSE /\ kp' = [pc |-> "loop"] @@ next.val
                /\ UNCHANGED ret
    /\ UNCHANGED <<digits, exponent, scale, num, fs, emitted>>

KYPowReturn ==
    /\ kp.pc = "loop"
    /\ BigIsZero(kp.power)
    /\ ret' = [ret EXCEPT !["ky_power_of_ten"] = Ok(kp.output)]
    /\ kp' = [kp EXCEPT !.pc = "done"]
    /\ UNCHANGED <<digits, exponent, scale, num, fs, emitted>>

(***************************************************************************)
(* knuth_yllion::full_name, one group per step.  Each step records what    *)
(* the group appended to the output: whether a group name was written, and *)
(* the qualifiers written, read back from the appended words.              *)
(***************************************************************************)
\* Where the words of s begin (words are separated by single spaces).
WordStarts(s) ==
    {i \in 1..Len(s) :
       /\ SubSeq(s, i, i) # " "
       /\ i = 1 \/ SubSeq(s, i - 1, i - 1) = " "}

\* The word of s that begins at i.
WordAt(s, i) ==
    LET ends == {j \in i..Len(s) : j = Len(s) \/ SubSeq(s, j + 1, j + 1) = " "}
    IN  SubSeq(s, i, CHOOSE j \in ends : \A l \in ends : j <= l)

\* The words of s in order.
Words(s) ==
    LET starts == WordStarts(s)
    IN  [r \in 1..Cardinality(starts) |->
           WordAt(s, CHOOSE i \in starts :
                        Cardinality({j \in starts : j < i}) = r - 1)]

\* A word that zyllion_number produces: "myriad" or a name in "yllion".
IsQualifier(w) ==
    \/ w = "myriad"
    \/ Len(w) > 6 /\ SubSeq(w, Len(w) - 5, Len(w)) = "yllion"

\* The bits of a usize: an even nonzero usize has 1 to 63 trailing zeros.
UsizeBits == 64

\* The integer zyllion_number returns next to the qualifier w.
QualifierLargest(w) ==
    IF w = "myriad" THEN 1
    ELSE 1 + CHOOSE p \in 1..(UsizeBits - 1) :
                 latin_prefix(p) = Some(Pop(Pop(Pop(Pop(Pop(Pop(w)))))))

\* What the step from the scan state before to the scan state after wrote
\* for the group of index k (0 = rightmost) and value value.
ScanEvent(k, value, before, after) ==
    LET appended == SubSeq(after.output, Len(before.output) + 1,
                           Len(after.output))
        ws == Words(appended)
        qs == SelectSeq(ws, IsQualifier)
    IN  [k |-> k,
         value |-> value,
         named |-> \E r \in DOMAIN ws : ~IsQualifier(ws[r]),
         quals |-> [r \in DOMAIN qs |-> QualifierLargest(qs[r])]]

\* The sanity checks and the early return on zero.
KYScanEnter ==
    /\ ~Called("ky_full_name")
    /\ fs.pc = "idle"
    /\ LET first_nonzero == KYFirstNonzero(digits)
       IN  IF ~first_nonzero.ok
           THEN /\ ret' = [ret EXCEPT !["ky_full_name"] = first_nonzero]
                /\ fs' = [fs EXCEPT !.pc = "done"]
           ELSE IF ~first_nonzero.val.some
           THEN /\ ret' = [ret EXCEPT !["ky_full_name"] = Ok("zero")]
                /\ fs' = [fs EXCEPT !.pc = "done"]
           ELSE LET st == KYScanStart(digits, first_nonzero.val.val)
                IN  /\ fs' = [pc |-> IF st.remaining % 4 > 0
                                     THEN "first" ELSE "loop"] @@ st
                    /\ UNCHANGED ret
    /\ UNCHANGED <<digits, exponent, scale, num, kp, emitted>>

\* The first, shorter group.
KYScanFirst ==
    /\ fs.pc = "first"
    /\ LET next == KYFirstGroup(digits, fs)
       IN  IF ~next.ok
           THEN /\ ret' = [ret EXCEPT !["ky_full_name"] = next]
                /\ fs' = [fs EXCEPT !.pc = "done"]
                /\ UNCHANGED emitted
           ELSE /\ fs' = [pc |-> "loop"] @@ next.val
                /\ emitted' =
                     Append(emitted,
                            ScanEvent(fs.remaining \div 4,
                                      num_from_slice(digits, fs.i,
                                                     fs.remaining % 4).val,
                                      fs, next.val))
                /\ UNCHANGED ret
    /\ UNCHANGED <<digits, exponent, scale, num, kp>>

\* One iteration of the while loop.
KYScanStep ==
    /\ fs.pc = "loop"
    /\ fs.remaining > 0
    /\ LET next == KYGroup(digits, fs)
       IN  IF ~next.ok
           THEN /\ ret' = [ret EXCEPT !["ky_full_name"] = next]
                /\ fs' = [fs EXCEPT !.pc = "done"]
                /\ UNCHANGED emitted
           ELSE /\ fs' = [pc |-> "loop"] @@ next.val
                /\ emitted' =
                     Append(emitted,
                            ScanEvent((fs.remaining - 1) \div 4,
                                      num_from_slice(digits, fs.i, 4).val,
                                      fs, next.val))
                /\ UNCHANGED ret
    /\ UNCHANGED <<digits, exponent, scale, num, kp>>

\* The loop has ended: Ok(output).
KYScanReturn ==
    /\ fs.pc = "loop"
    /\ fs.remaining = 0
    /\ ret' = [ret EXCEPT !["ky_full_name"] = Ok(fs.output)]
    /\ fs' = [fs EXCEPT !.pc = "done"]
    /\ UNCHANGED <<digits, exponent, scale, num, kp, emitted>>

(***************************************************************************)
(* The helper functions, called on their own.                              *)
(***************************************************************************)
ZillionNumber ==
    /\ ~Called("zillion_number")
    /\ ret' = [ret EXCEPT !["zillion_number"] = zillion_number(num, scale)]
    /\ UNCHANGED <<digits, exponent, scale, num, kp, fs, emitted>>

\* The Option that myriad_number returns is recorded as the Result its
\* callers make of it with the ? operator.
MyriadNumber ==
    /\ ~Called("myriad_number")
    /\ ret' = [ret EXCEPT !["myriad_number"] =
                 LET name == myriad_number(num)
                 IN  IF name.some THEN Ok(name.val)
                     ELSE Err("InternalError")]
    /\ UNCHANGED <<digits, exponent, scale, num, kp, fs, emitted>>

\* The Option that latin_prefix returns, recorded the same way.
LatinPrefix ==
    /\ ~Called("latin_prefix")
    /\ ret' = [ret EXCEPT !["latin_prefix"] =
                 LET prefix == latin_prefix(num)
                 IN  IF prefix.some THEN Ok(prefix.val)
                     ELSE Err("InternalError")]
    /\ UNCHANGED <<digits, exponent, scale, num, kp, fs, emitted>>

NoCalls == /\ ret = [op \in Ops |-> NotCalled]
           /\ kp = KPIdle
           /\ fs = FSIdle
           /\ emitted = <<>>

(***************************************************************************)
(* Powers of ten: the exponent n and the number 10^n written out.          *)
(***************************************************************************)
MaxExponent == 100

InitPowers ==
    /\ \E n \in 0..MaxExponent :
         /\ exponent = DecimalString(n)
         /\ digits = OneAndZeros(n)
         /\ num = n
    /\ scale \in Scales
    /\ NoCalls

NextPowers == CWFullName \/ CWPowerOfTen \/ KYFullName \/ KYPowerOfTen

SpecPowers == InitPowers /\ [][NextPowers]_vars

(***************************************************************************)
(* Arbitrary short inputs, digits or not, one call per session.            *)
(***************************************************************************)
MaxLen == 6

InputChars == {"0", "1", "x"}

InitStrings ==
    /\ digits \in StringsUpTo(InputChars, MaxLen)
    /\ exponent = digits
    /\ num = 0
    /\ scale \in Scales
    /\ NoCalls

NextStrings ==
    \/ Fresh /\ CWFullName
    \/ Fresh /\ CWPowerOfTen
    \/ Fresh /\ KYFullName
    \/ Fresh /\ KYPowerOfTen

SpecStrings == InitStrings /\ [][NextStrings]_vars

(***************************************************************************)
(* The helper functions on every number up to a bound.                     *)
(***************************************************************************)
MaxNum == 10000

InitHelpers ==
    /\ num \in 0..MaxNum
    /\ scale \in Scales
    /\ digits = ""
    /\ exponent = ""
    /\ NoCalls

NextHelpers ==
    \/ Fresh /\ ZillionNumber
    \/ Fresh /\ MyriadNumber

SpecHelpers == InitHelpers /\ [][NextHelpers]_vars

(***************************************************************************)
(* Exponents at the edge of what knuth_yllion::power_of_ten names, next to *)
(* short inputs; one call per session, power_of_ten step by step.          *)
(***************************************************************************)
\* 2^1000, 2^1001 and 2^1002 in decimal.
TwoTo1000 ==
    "10715086071862673209484250490600018105614048117055336074437503883703510511249361224931983788156958581275946729175531468251871452856923140435984577574698574803934567774824230985421074605062371141877954182153046474983581941267398767559165543946077062914571196477686542167660429831652624386837205668069376"

TwoTo1001 ==
    "21430172143725346418968500981200036211228096234110672148875007767407021022498722449863967576313917162551893458351062936503742905713846280871969155149397149607869135549648461970842149210124742283755908364306092949967163882534797535118331087892154125829142392955373084335320859663305248773674411336138752"

TwoTo1002 ==
    "42860344287450692837937001962400072422456192468221344297750015534814042044997444899727935152627834325103786916702125873007485811427692561743938310298794299215738271099296923941684298420249484567511816728612185899934327765069595070236662175784308251658284785910746168670641719326610497547348822672277504"

\* The exponent e with its bit 0 set as well.
PlusOne(e) == Pop(e) \o DigitChar(DigitVal(CharAt(e, Len(e) - 1)) + 1)

LargeExponents ==
    {TwoTo1000, TwoTo1001, TwoTo1002, PlusOne(TwoTo1001), PlusOne(TwoTo1002)}

MaxShort == 3

InitLarge ==
    /\ digits \in LargeExponents \cup StringsUpTo(InputChars, MaxShort)
    /\ exponent = digits
    /\ num = 0
    /\ scale \in Scales
    /\ NoCalls

\* The calls that run in one step are made on the short inputs.
ShortInput == Len(digits) <= MaxShort

NextLarge ==
    \/ Fresh /\ ShortInput /\ CWFullName
    \/ Fresh /\ ShortInput /\ CWPowerOfTen
    \/ Fresh /\ ShortInput /\ KYFullName
    \/ Fresh /\ KYPowEnter
    \/ KYPowStep
    \/ KYPowReturn

SpecLarge == InitLarge /\ [][NextLarge]_vars

(***************************************************************************)
(* knuth_yllion::full_name on digit strings made of whole groups of four   *)
(* digits, zero or not, after an optional shorter first group; the scan    *)
(* runs one group per step.                                                *)
(***************************************************************************)
MaxGroups == 8

GroupChoices == {"0000", "0012"}

FirstChoices == {"", "7", "000"}

\* The strings made of n groups.
RECURSIVE GroupStrings(_)
GroupStrings(n) ==
    IF n = 0 THEN {""}
    ELSE {g \o s : g \in GroupChoices, s \in GroupStrings(n - 1)}

InitGroups ==
    /\ digits \in {f \o s : f \in FirstChoices,
                            s \in UNION {GroupStrings(n) : n \in 0..MaxGroups}}
    /\ exponent = ""
    /\ num = 0
    /\ scale = "Short"
    /\ NoCalls

NextGroups ==
    \/ Fresh /\ KYScanEnter
    \/ KYScanFirst
    \/ KYScanStep
    \/ KYScanReturn

SpecGroups == InitGroups /\ [][NextGroups]_vars

(***************************************************************************)
(* latin_prefix on every number it names, and the first it does not.       *)
(***************************************************************************)
MaxPrefix == 1000

InitPrefixes ==
    /\ num \in 0..MaxPrefix
    /\ scale = "Short"
    /\ digits = ""
    /\ exponent = ""
    /\ NoCalls

NextPrefixes == Fresh /\ LatinPrefix

SpecPrefixes == InitPrefixes /\ [][NextPrefixes]_vars

(***************************************************************************)
(* conway_wechsler::full_name on digit strings made of whole groups of     *)
(* three digits, zero or not, after an optional shorter first group.       *)
(***************************************************************************)
MaxTriples == 6

TripleChoices == {"000", "012"}

TripleFirstChoices == {"", "7", "00"}

\* The strings made of n groups of three digits.
RECURSIVE TripleStrings(_)
TripleStrings(n) ==
    IF n = 0 THEN {""}
    ELSE {g \o s : g \in TripleChoices, s \in TripleStrings(n - 1)}

InitTriples ==
    /\ digits \in {f \o s : f \in TripleFirstChoices,
                            s \in UNION {TripleStrings(n) :
                                           n \in 0..MaxTriples}}
    /\ exponent = ""
    /\ num = 0
    /\ scale \in Scales
    /\ NoCalls

NextTriples == Fresh /\ CWFullName

SpecTriples == InitTriples /\ [][NextTriples]_vars

Spec == SpecPowers

(***************************************************************************)
(* Properties.                                                             *)
(***************************************************************************)
PublicOps ==
    {"cw_full_name", "cw_power_of_ten", "ky_full_name", "ky_power_of_ten"}

\* The string an operation was called on.
InputOf(op) ==
    IF op \in {"cw_full_name", "ky_full_name"} THEN digits ELSE exponent

\* C1: under every scale, conway_wechsler::power_of_ten on the decimal
\* string of n returns exactly the string that conway_wechsler::full_name
\* returns on "1" followed by n zeros.
C1_PowerOfTenIsFullName ==
    (Called("cw_power_of_ten") /\ Called("cw_full_name"))
        => /\ ret["cw_power_of_ten"].ok
           /\ ret["cw_power_of_ten"] = ret["cw_full_name"]

C1_Witness ==
    /\ exponent = "100"
    /\ scale = "LongBritish"
    /\ ret["cw_power_of_ten"] = Ok("ten thousand sedecillion")
    /\ ret["cw_full_name"] = Ok("ten thousand sedecillion")

\* C2: knuth_yllion::power_of_ten on the decimal string of n returns exactly
\* the string that knuth_yllion::full_name returns on "1" followed by n
\* zeros.
C2_PowerOfTenIsFullName ==
    (Called("ky_power_of_ten") /\ Called("ky_full_name"))
        => /\ ret["ky_power_of_ten"].ok
           /\ ret["ky_power_of_ten"] = ret["ky_full_name"]

\* C3: every public operation returns Err(Empty) on the empty string and
\* Err(InvalidDigit) on a string with a character outside '0'..'9'.
C3_RejectsEmptyAndNonDigits ==
    \A op \in PublicOps :
        Called(op) =>
            /\ (InputOf(op) = "" => ret[op] = Err("Empty"))
            /\ (~is_all_digits(InputOf(op)) => ret[op] = Err("InvalidDigit"))

\* A nonempty string of '0' characters only.
AllZeros(s) == s # "" /\ \A i \in 1..Len(s) : SubSeq(s, i, i) = "0"

\* C4: on every nonempty string of '0' characters only, both full_name
\* functions return Ok("zero"), under every scale.
C4_ZeroIsZero ==
    AllZeros(digits) =>
        \A op \in {"cw_full_name", "ky_full_name"} :
            Called(op) => ret[op] = Ok("zero")

C4_Witness ==
    /\ digits = "000"
    /\ scale = "LongPeletier"
    /\ ret["cw_full_name"] = Ok("zero")

\* C5: a leading '0' does not change the result of full_name: on "0"
\* followed by a nonempty digit string d, each full_name returns what it
\* returns on d (so neither does any number of leading zeros).
C5_LeadingZeroIrrelevant ==
    (Len(digits) > 1 /\ Head(digits) = "0" /\ is_all_digits(digits)) =>
        /\ Called("cw_full_name") =>
              /\ ret["cw_full_name"].ok
              /\ ret["cw_full_name"] = cw_full_name(Tail(digits), scale)
        /\ Called("ky_full_name") =>
              /\ ret["ky_full_name"].ok
              /\ ret["ky_full_name"] = ky_full_name(Tail(digits))

C5_Witness ==
    /\ digits = "011111"
    /\ ret["ky_full_name"] = Ok("one myriad eleven hundred eleven")
    /\ ky_full_name("11111") = Ok("one myriad eleven hundred eleven")

\* The English names C6 describes, with "forty" for the tens digit 4.
C6_TENS ==
    << "", "", "twenty", "thirty", "forty", "fifty", "sixty", "seventy",
       "eighty", "ninety" >>

C6_Pair(tens, units) ==
    IF tens < 2 THEN NAMES_UPTO_TWENTY[10 * tens + units + 1]
    ELSE IF units = 0 THEN C6_TENS[tens + 1]
    ELSE C6_TENS[tens + 1] \o " " \o NAMES_UPTO_TWENTY[units + 1]

C6_Name(n) ==
    LET high == C6_Pair(n \div 1000, (n % 1000) \div 100)
        low == C6_Pair((n % 100) \div 10, n % 10)
    IN  IF high = "" THEN low
        ELSE IF low = "" THEN high \o " hundred"
        ELSE high \o " hundred " \o low

\* C6: myriad_number(n), for n in 0..=9999, is the English name of the high
\* pair followed by " hundred" and of the low pair, with "forty" for the
\* tens digit 4.
C6_MyriadIsEnglish ==
    (Called("myriad_number") /\ num < MyriadLimit)
        => ret["myriad_number"] = Ok(C6_Name(num))

\* The bit j of n.
C7_Bit(n, j) == (n \div (2 ^ j)) % 2 = 1

\* The terms for the set bits of n from position j on, in increasing j.
RECURSIVE C7_Yllions(_, _)
C7_Yllions(n, j) ==
    IF 2 ^ j > n THEN ""
    ELSE (IF C7_Bit(n, j)
          THEN " " \o latin_prefix(j - 2).val \o "yllion" ELSE "")
         \o C7_Yllions(n, j + 1)

C7_Name(n) ==
    (IF C7_Bit(n, 0) THEN "ten" ELSE "one")
    \o (IF C7_Bit(n, 1) THEN " hundred" ELSE "")
    \o (IF C7_Bit(n, 2) THEN " myriad" ELSE "")
    \o C7_Yllions(n, 3)

\* C7: knuth_yllion::power_of_ten names 10^n from the binary digits of n:
\* "ten" or "one" by bit 0, " hundred" for bit 1, " myriad" for bit 2 and
\* latin_prefix(j-2) + "yllion" for each set bit j >= 3, in increasing j.
C7_PowerOfTenFromBits ==
    Called("ky_power_of_ten") => ret["ky_power_of_ten"] = Ok(C7_Name(num))

\* a >= b for two BigUint values.
BigGeq(a, b) ==
    \/ Len(a) > Len(b)
    \/ /\ Len(a) = Len(b)
       /\ \/ a = b
          \/ \E i \in 1..Len(a) :
                /\ a[i] > b[i]
                /\ \A j \in 1..(i - 1) : a[j] = b[j]

\* 2^1002: the least exponent with a set bit j such that j - 2 >= 1000.
C8_Limit == BigFromStr(TwoTo1002).val

\* C8: knuth_yllion::power_of_ten returns Err(InputTooLarge) exactly when
\* the exponent has a set bit j with j - 2 >= 1000 and Ok otherwise; on the
\* exponent 2^1001 it returns "one novenonagintanongentyllion".
C8_TooLargeFromIndex1000 ==
    (Called("ky_power_of_ten") /\ exponent # "" /\ is_all_digits(exponent))
        => /\ IF BigGeq(BigFromStr(exponent).val, C8_Limit)
              THEN ret["ky_power_of_ten"] = Err("InputTooLarge")
              ELSE ret["ky_power_of_ten"].ok
           /\ exponent = TwoTo1001
                 => ret["ky_power_of_ten"]
                        = Ok("one novenonagintanongentyllion")

\* C9: no call of a public operation panics or returns InternalError
\* (latin_prefix, myriad_number and num_from_slice only get arguments in
\* their range): every failure is Empty, InvalidDigit or InputTooLarge.
C9_NoInternalErrorNoPanic ==
    \A op \in PublicOps :
        Called(op) =>
            \/ ret[op].ok
            \/ ret[op].val \in {"Empty", "InvalidDigit", "InputTooLarge"}

\* power_of_ten has named the bit 1001 with latin_prefix(999).
C9_Witness ==
    /\ kp.pc = "loop"
    /\ kp.zyl_num = LatinLimit
    /\ kp.output = "one novenonagintanongentyllion"

\* latin_prefix(digit) + "illi" for every base-1000 digit of power, most
\* significant first.
RECURSIVE C10_Illis(_)
C10_Illis(power) ==
    IF power = 0 THEN ""
    ELSE C10_Illis(power \div 1000)
         \o latin_prefix(power % 1000).val \o "illi"

C10_Name(k, sc) ==
    IF k = 0 THEN ""
    ELSE IF k = 1 THEN "thousand"
    ELSE LET illis == C10_Illis(IF sc = "Short" THEN k - 1 ELSE k \div 2)
         IN  IF k % 2 = 1 /\ sc = "LongBritish"
             THEN "thousand " \o illis \o "on"
             ELSE IF k % 2 = 1 /\ sc = "LongPeletier" THEN illis \o "ard"
             ELSE illis \o "on"

\* C10: zillion_number(k, scale) is "" for k = 0, "thousand" for k = 1 and
\* otherwise the "illi" morphemes of power (k - 1 under Short, floor(k/2)
\* under the long scales), most significant base-1000 digit first, then
\* "on"; for odd k LongBritish prepends "thousand " and LongPeletier ends in
\* "ard".  The group of 10^9 is "billion", "thousand million", "milliard".
C10_ZillionNumber ==
    Called("zillion_number") =>
        /\ ret["zillion_number"] = Ok(C10_Name(num, scale))
        /\ num = 3 =>
              ret["zillion_number"] =
                  Ok(CASE scale = "Short" -> "billion"
                       [] scale = "LongBritish" -> "thousand million"
                       [] scale = "LongPeletier" -> "milliard")

\* A zero base-1000 digit gives "nilli".
C10_Witness ==
    /\ num = 2001
    /\ scale = "LongPeletier"
    /\ ret["zillion_number"] = Ok("millinilliard")

\* The power of ten a qualifier stands for, from the integer zyllion_number
\* returns with it: "myriad" (1) is 10^4, latin_prefix(p) + "yllion" (p + 1)
\* is 10^(2^(p + 2)).
C11_Exponent(largest) == 4 * 2 ^ (largest - 1)

\* The qualifiers written from the step j on, in order.
RECURSIVE C11_QualsFrom(_)
C11_QualsFrom(j) ==
    IF j > Len(emitted) THEN <<>>
    ELSE emitted[j].quals \o C11_QualsFrom(j + 1)

\* The exponents of the qualifiers of qs, from position r on, that are
\* strictly larger than every qualifier before them (highest so far: max).
RECURSIVE C11_RecordSum(_, _, _)
C11_RecordSum(qs, r, max) ==
    IF r > Len(qs) THEN 0
    ELSE IF qs[r] > max
    THEN C11_Exponent(qs[r]) + C11_RecordSum(qs, r + 1, qs[r])
    ELSE C11_RecordSum(qs, r + 1, max)

\* The qualifier written alone at step j is larger than every qualifier
\* written since the name of step j0: the name of j0 needs it.
C11_NeededBy(j0, j) ==
    /\ emitted[j0].named
    /\ \A r \in j0..(j - 1) : \A x \in DOMAIN emitted[r].quals :
         emitted[r].quals[x] < emitted[j].quals[1]

\* C11: knuth_yllion::full_name denotes the input number.  When the scan has
\* returned Ok, every nonzero 4-digit group of index k has written its name,
\* and the qualifiers written from that name on that are strictly larger
\* than every qualifier between the name and them stand for powers of ten
\* whose exponents sum to 4k; a zero group writes no name and at most its
\* qualifier alone, and writes it only where the name of an earlier nonzero
\* group needs it in that sum.
C11_FullNameDenotesNumber ==
    (fs.pc = "done" /\ ret["ky_full_name"].ok /\ emitted # <<>>) =>
        /\ emitted[Len(emitted)].k = 0
        /\ \A j \in DOMAIN emitted :
             IF emitted[j].value # 0
             THEN /\ emitted[j].named
                  /\ C11_RecordSum(C11_QualsFrom(j), 1, 0) = 4 * emitted[j].k
             ELSE /\ ~emitted[j].named
                  /\ Len(emitted[j].quals) <= 1
                  /\ emitted[j].quals # <<>> =>
                       \E j0 \in 1..(j - 1) : C11_NeededBy(j0, j)

\* 7 0000 0000 0012 0000 0000 0000: group 6 writes "seven myllion", the
\* zero group 4 writes "byllion" alone for it, group 3 writes "twelve
\* myriad" and the zero group 2 writes "myllion" alone for that.
C11_Witness ==
    /\ digits = "7" \o "0000" \o "0000" \o "0012" \o "0000" \o "0000"
                    \o "0000"
    /\ fs.pc = "done"
    /\ ret["ky_full_name"] = Ok("seven myllion byllion twelve myriad myllion")
    /\ Len(emitted) = 7

\* The highest qualifier written so far (0 if none).
C12_Highest ==
    LET qs == C11_QualsFrom(1)
    IN  IF qs = <<>> THEN 0
        ELSE CHOOSE q \in {qs[r] : r \in DOMAIN qs} :
                 \A r \in DOMAIN qs : qs[r] <= q

\* The last qualifier written so far (0 if none).
C12_Latest ==
    LET qs == C11_QualsFrom(1)
    IN  IF qs = <<>> THEN 0 ELSE qs[Len(qs)]

\* C12 as stated: during the scan of knuth_yllion::full_name, last_largest
\* equals the highest qualifier magnitude written so far over the whole scan
\* (0 if none).
C12_LastLargestIsHighest ==
    fs.pc \in {"first", "loop"} => fs.last_largest = C12_Highest

\* C12, amended: during the scan of knuth_yllion::full_name, last_largest
\* equals the magnitude of the qualifier written last (0 if none); it goes
\* down when a nonzero group writes a smaller qualifier than the one before.
C12_LastLargestIsLatest ==
    fs.pc \in {"first", "loop"} => fs.last_largest = C12_Latest

\* 0012 0012 0000 after its second group: "myllion" (2) was written, then
\* "myriad" (1), and last_largest is 1.
C12_Witness ==
    /\ digits = "0012" \o "0012" \o "0000"
    /\ fs.pc = "loop"
    /\ fs.remaining = 4
    /\ fs.output = "twelve myllion twelve myriad"
    /\ fs.last_largest = 1
    /\ C12_Highest = 2

C13_Vowels == {"a", "e", "i", "o", "u"}

\* C13: for every n in 10..999 the string latin_prefix assembles before its
\* final pop is nonempty and ends in a vowel, and the result is that string
\* without this one vowel; for n in 0..9 the result is the base morpheme,
\* with nothing removed.
C13_PopRemovesOneVowel ==
    Called("latin_prefix") =>
        /\ num \in 10..999 =>
             LET assembled == LatinAssembled(num)
             IN  /\ assembled # ""
                 /\ CharAt(assembled, Len(assembled) - 1) \in C13_Vowels
                 /\ ret["latin_prefix"].ok
                 /\ \E v \in C13_Vowels :
                      ret["latin_prefix"].val \o v = assembled
        /\ num \in 0..9 =>
             ret["latin_prefix"] = Ok(LATIN_BASE_PREFIXES[num + 1])

\* 103: "tre", the connector "s" and "centi", popped to "trescent".
C13_Witness ==
    /\ num = 103
    /\ LatinAssembled(num) = "trescenti"
    /\ ret["latin_prefix"] = Ok("trescent")

\* A word of a magnitude qualifier of conway_wechsler::full_name (a group
\* name, below one thousand, has none of them).
C14_IsQualifier(w) ==
    \/ w = "thousand"
    \/ Len(w) > 6 /\ SubSeq(w, Len(w) - 5, Len(w)) = "illion"
    \/ Len(w) > 7 /\ SubSeq(w, Len(w) - 6, Len(w)) = "illiard"

\* The output read as groups: each a run of name words, then the run of
\* qualifier words that follows it.
C14_Groups(out) ==
    LET ws == Words(out)
        starts == {r \in DOMAIN ws :
                     /\ ~C14_IsQualifier(ws[r])
                     /\ r = 1 \/ C14_IsQualifier(ws[r - 1])}
        Start(j) == CHOOSE r \in starts :
                        Cardinality({r2 \in starts : r2 < r}) = j - 1
        End(j) == IF j = Cardinality(starts) THEN Len(ws)
                  ELSE Start(j + 1) - 1
        NameEnd(j) == CHOOSE r \in Start(j)..End(j) :
                          /\ \A r2 \in Start(j)..r : ~C14_IsQualifier(ws[r2])
                          /\ \A r2 \in (r + 1)..End(j) :
                               C14_IsQualifier(ws[r2])
    IN  [j \in 1..Cardinality(starts) |->
           [name |-> SubSeq(ws, Start(j), NameEnd(j)),
            qual |-> SubSeq(ws, NameEnd(j) + 1, End(j))]]

\* The digits from the first nonzero one on.
C14_Significant ==
    LET idx == FindNonZero(digits)
    IN  IF idx.some THEN SubSeq(digits, idx.val + 1, Len(digits)) ELSE ""

\* The value of the 3-digit group of index k (0 = rightmost) of the
\* significant digits; the leftmost group may be shorter.
C14_Value(k) ==
    LET d == C14_Significant
        from == IF Len(d) < 3 * (k + 1) THEN 0 ELSE Len(d) - 3 * (k + 1)
    IN  num_from_slice(d, from, Len(d) - 3 * k - from).val

\* The indices of the nonzero groups, from the left.
C14_NonzeroGroups ==
    LET ks == {k \in 0..((Len(C14_Significant) + 2) \div 3 - 1) :
                 C14_Value(k) # 0}
    IN  [j \in 1..Cardinality(ks) |->
           CHOOSE k \in ks : Cardinality({k2 \in ks : k2 > k}) = j - 1]

\* What full_name returns on the digits under the scale sc.
C14_Out(sc) ==
    IF sc = scale THEN ret["cw_full_name"] ELSE cw_full_name(digits, sc)

\* C14: the scale changes only magnitude qualifiers in
\* conway_wechsler::full_name.  Under each of the three scales the group
\* names of the output are, in order, the myriad_number results of the
\* nonzero groups; with at most 6 significant digits the three scales return
\* the same string; and the qualifier of a group differs between LongBritish
\* and LongPeletier only if the group has an odd index k >= 3.  An input
\* that is rejected or is zero gets the same result under every scale.
C14_ScaleChangesOnlyQualifiers ==
    Called("cw_full_name") =>
        IF ~ret["cw_full_name"].ok \/ C14_Significant = ""
        THEN \A sc \in Scales : C14_Out(sc) = ret["cw_full_name"]
        ELSE LET ks == C14_NonzeroGroups
                 british == C14_Groups(C14_Out("LongBritish").val)
                 peletier == C14_Groups(C14_Out("LongPeletier").val)
             IN  /\ \A sc \in Scales :
                      /\ C14_Out(sc).ok
                      /\ LET groups == C14_Groups(C14_Out(sc).val)
                         IN  /\ Len(groups) = Len(ks)
                             /\ \A j \in DOMAIN ks :
                                  groups[j].name =
                                    Words(myriad_number(C14_Value(ks[j])).val)
                 /\ Len(C14_Significant) <= 6 =>
                      \A sc \in Scales : C14_Out(sc) = ret["cw_full_name"]
                 /\ \A j \in DOMAIN ks :
                      british[j].qual # peletier[j].qual =>
                          ks[j] % 2 = 1 /\ ks[j] >= 3

\* 12 000 012 012 000 000 under LongPeletier: group 5 is "twelve billiard"
\* (LongBritish: "twelve thousand billion"), and groups 3 and 2 are "twelve
\* milliard" (LongBritish: "twelve thousand million") and "twelve million".
C14_Witness ==
    /\ digits = "012" \o "000" \o "012" \o "012" \o "000" \o "000"
    /\ scale = "LongPeletier"
    /\ ret["cw_full_name"] =
         Ok("twelve billiard twelve milliard twelve million")
    /\ cw_full_name(digits, "LongBritish") =
         Ok("twelve thousand billion twelve thousand million twelve million")
    /\ cw_full_name(digits, "Short") =
         Ok("twelve quadrillion twelve billion twelve million")

\* C15: latin_prefix is injective on 0..999 and every result is a nonempty
\* string: the result of the call on num is nonempty and differs from the
\* result on every other number of the range.
C15_LatinPrefixInjective ==
    (Called("latin_prefix") /\ num \in 0..(LatinLimit - 1)) =>
        /\ ret["latin_prefix"].ok
        /\ ret["latin_prefix"].val # ""
        /\ \A m \in 0..(LatinLimit - 1) :
             m # num => latin_prefix(m) # Some(ret["latin_prefix"].val)

\* 300 and 103 differ by the connector: "trecent" against "trescent".
C15_Witness ==
    /\ num = 300
    /\ ret["latin_prefix"] = Ok("trecent")
    /\ latin_prefix(103) = Some("trescent")
====
